---- MODULE Spec2Model ----
(***************************************************************************)
(* Item-item collaborative filtering notebooks (collab_part2.ipynb):       *)
(* load ratings, split into training/test, pivot the training partition    *)
(* into an item-by-user utility matrix, compute the cosine similarity of   *)
(* every ordered pair of distinct items, join it to the training ratings,  *)
(* predict every test row from its top-N neighbours, evaluate by RMSE.     *)
(*                                                                         *)
(* Numbers.  A Spark double column is a record [kind, val]: kind "num"     *)
(* with val the value in units of 1/Scale, kind "nan" for NaN, kind "null" *)
(* for SQL NULL.  Every double operation rounds its exact result to the    *)
(* nearest value of Precision significant bits (ties to even), as IEEE 754 *)
(* binary64 does with 53 bits; below 2^Precision units the grid is one     *)
(* unit.  Integer columns (userId, movieId, rating) are plain integers; a  *)
(* NULL movieId is NullId.                                                 *)
(***************************************************************************)
EXTENDS Integers, FiniteSets, Sequences, TLC

VARIABLES pc, df, training, test, similarity_matrix, df_user_movie_rating,
          nValue, joined_df, result_df, rmse, userRatingsDf,
          predictions, partitions, pending, outputs, previous,
          predicted_rating

vars == <<pc, df, training, test, similarity_matrix, df_user_movie_rating,
          nValue, joined_df, result_df, rmse, userRatingsDf,
          predictions, partitions, pending, outputs, previous,
          predicted_rating>>

\* the frame of the latent-factor notebook, the state of the similarity
\* job while its tasks run, the partitions of an earlier run, and the
\* outcome of part 1's predict_user_rating
aux == <<predictions, partitions, pending, outputs, previous,
         predicted_rating>>

\* ------------------------------------------------------------------ bounds
\* The rating files range over a grid of two users and three movies, the
\* smallest on which a top-N cut, a tie and a zero-norm row all occur.
Users == {1, 2}
Items == {1, 2, 3}
\* "Ratings vary from 0 to 5": every user can give 3 or 5, the first user
\* also 0 (a rating the pivot cannot tell from a missing one).
MaxRating == 5
RatingValues == {0, 3, MaxRating}
RatingsOf(u) == IF u = 1 THEN RatingValues ELSE RatingValues \ {0}
SampleRatings == {1, MaxRating}
\* rows randomSplit may send to the test side
MaxTest == 2
MaxTestSample == 0
MaxTestRerun == 1
\* rows of the sample user's list
MaxSample == 2
MaxSampleAny == 1
\* values of nValue
MaxN == 2
\* a double has Precision significant bits and FracBits fractional bits
Precision == 8
FracBits == 8
Scale == 2^FracBits

NullId == 0
Absent == 0 - 1

\* ------------------------------------------------------- double arithmetic
Num(v) == [kind |-> "num", val |-> v]
NaN == [kind |-> "nan", val |-> 0]
Null == [kind |-> "null", val |-> 0]

RECURSIVE SqrtBetween(_, _, _)
SqrtBetween(n, lo, hi) ==
  IF lo >= hi THEN lo
  ELSE LET mid == (lo + hi + 1) \div 2
       IN IF mid * mid <= n THEN SqrtBetween(n, mid, hi)
                            ELSE SqrtBetween(n, lo, mid - 1)

\* floor of the square root of n >= 0
ISqrt(n) == SqrtBetween(n, 0, 46340)

RECURSIVE SumOn(_, _)
SumOn(f, S) ==
  IF S = {} THEN 0
  ELSE LET x == CHOOSE y \in S : TRUE
       IN f[x] + SumOn(f, S \ {x})

\* the least e with num/den < 2^(Precision + e)
RECURSIVE Exponent(_, _, _)
Exponent(num, den, e) ==
  IF num < (2^Precision) * den * (2^e) THEN e
  ELSE Exponent(num, den, e + 1)

\* The double nearest to num/den units (num >= 0, den > 0), ties to even.
RoundMag(num, den) ==
  LET e == Exponent(num, den, 0)
      d == den * (2^e)
      m == num \div d
      r == num % d
      up == 2 * r > d \/ (2 * r = d /\ m % 2 = 1)
  IN (IF up THEN m + 1 ELSE m) * (2^e)

\* The double nearest to num/den units (den > 0): rounding is symmetric in
\* the sign.
Round(num, den) ==
  IF num < 0 THEN 0 - RoundMag(0 - num, den) ELSE RoundMag(num, den)

\* The double nearest to the square root of q units squared (correctly
\* rounded: the half unit below the root is kept, what is left is sticky).
FSqrt(q) ==
  LET r == ISqrt(4 * q)
  IN Round(IF r * r = 4 * q THEN 2 * r ELSE 2 * r + 1, 4)

\* Column multiplication: NULL if an operand is NULL, NaN if one is NaN.
Mul(a, b) ==
  IF a.kind = "null" \/ b.kind = "null" THEN Null
  ELSE IF a.kind = "nan" \/ b.kind = "nan" THEN NaN
  ELSE Num(Round(a.val * b.val, Scale))

\* Spark SQL "/" (non-ANSI): NULL for a NULL operand or a zero divisor.
Divide(a, b) ==
  IF a.kind = "null" \/ b.kind = "null" THEN Null
  ELSE IF b.kind = "num" /\ b.val = 0 THEN Null
  ELSE IF a.kind = "nan" \/ b.kind = "nan" THEN NaN
  ELSE IF b.val < 0 THEN Num(Round(0 - a.val * Scale, 0 - b.val))
  ELSE Num(Round(a.val * Scale, b.val))

\* no fallback value
coalesce_none(a, b) == a

coalesce(a, b) == IF a.kind = "null" THEN b ELSE a

lit(r) == Num(r * Scale)

\* The values f[x], x in S, added one by one, each addition rounded.
RECURSIVE FSum(_, _)
FSum(f, S) ==
  IF S = {} THEN 0
  ELSE LET x == CHOOSE y \in S : TRUE
       IN Round(f[x] + FSum(f, S \ {x}), 1)

\* sum() aggregate of column f over the rows S: NULLs are skipped, the sum
\* of no non-NULL value is NULL, a NaN makes the sum NaN.
spark_sum(f, S) ==
  LET nn == {x \in S : f[x].kind # "null"}
  IN IF nn = {} THEN Null
     ELSE IF \E x \in nn : f[x].kind = "nan" THEN NaN
     ELSE Num(FSum([x \in nn |-> f[x].val], nn))

\* ------------------------------------------------------------- cell 3: load
Row(u, m, r) == [userId |-> u, movieId |-> m, rating |-> r]

RowsOf(g) == {Row(c[1], c[2], g[c]) : c \in {d \in DOMAIN g : g[d] # Absent}}

\* The rating files the notebook can be given: at most one rating per
\* (userId, movieId).
Datasets ==
  {RowsOf(g) : g \in {h \in [Users \X Items -> RatingValues \cup {Absent}] :
                        \A c \in DOMAIN h : h[c] \in RatingsOf(c[1]) \cup {Absent}}}

\* Rating files that also hold ratings above the scale: read.csv with
\* inferSchema takes the column as it comes.
RawRatingValues == {3, MaxRating + 1}

RawDatasets == {RowsOf(g) : g \in [Users \X Items -> RawRatingValues \cup {Absent}]}

\* spark.read.csv(..., header=True, inferSchema=True).drop("timestamp") of
\* one of the given files
LoadFrom(files) ==
  /\ pc = "start"
  /\ \E ds \in files : df' = ds
  /\ pc' = "loaded"
  /\ UNCHANGED <<training, test, similarity_matrix, df_user_movie_rating,
                 nValue, joined_df, result_df, rmse, userRatingsDf>>
  /\ UNCHANGED aux

Load == LoadFrom(Datasets)

\* ---------------------------------------------------- cell 4: data modeling
\* the pivot without fillna(0): a missing rating stays missing
pivot_nofill(rows) ==
  LET movies == {r.movieId : r \in rows}
      cols == {r.userId : r \in rows}
  IN [m \in movies |->
        [u \in cols |->
           IF \E r \in rows : r.movieId = m /\ r.userId = u
           THEN (CHOOSE r \in rows : r.movieId = m /\ r.userId = u).rating
           ELSE Absent]]

\* groupBy("movieId").pivot("userId").agg(first(rating)).fillna(0): one row
\* per movie of the partition, one column per user of the partition.
pivot(rows) ==
  LET movies == {r.movieId : r \in rows}
      cols == {r.userId : r \in rows}
  IN [m \in movies |->
        [u \in cols |->
           IF \E r \in rows : r.movieId = m /\ r.userId = u
           THEN (CHOOSE r \in rows : r.movieId = m /\ r.userId = u).rating
           ELSE 0]]

dot(x, y) == SumOn([u \in DOMAIN x |-> x[u] * y[u]], DOMAIN x)

\* squared 2-norm
norm2sq(x) == SumOn([u \in DOMAIN x |-> x[u] * x[u]], DOMAIN x)

\* Vectors.norm(x, 2)
norm(x) == Num(FSqrt(norm2sq(x) * Scale * Scale))

\* co_sym dividing by the squared norms (the square roots forgotten)
co_sym_nosqrt(x, y) ==
  IF norm2sq(x) * norm2sq(y) = 0 THEN NaN
  ELSE Divide(Num(Round(dot(x, y) * Scale, 1)),
              Mul(Num(Round(norm2sq(x) * Scale, 1)),
                  Num(Round(norm2sq(y) * Scale, 1))))

\* co_sym dividing by the first norm twice
co_sym_byfirst(x, y) ==
  IF norm2sq(x) * norm2sq(y) = 0 THEN NaN
  ELSE Divide(Num(Round(dot(x, y) * Scale, 1)), Mul(norm(x), norm(x)))

\* co_sym dividing by the first norm only
co_sym_unnormalised(x, y) ==
  IF norm2sq(x) * norm2sq(y) = 0 THEN NaN
  ELSE Divide(Num(Round(dot(x, y) * Scale, 1)), norm(x))

\* float(x.dot(y) / (norm(x) * norm(y))) in numpy float64: 0.0/0.0 is nan
\* (a warning, not an exception).
co_sym(x, y) ==
  IF norm2sq(x) * norm2sq(y) = 0 THEN NaN
  ELSE Divide(Num(Round(dot(x, y) * Scale, 1)), Mul(norm(x), norm(y)))

\* the cross join keeping each unordered pair once (a.movieId < b.movieId)
SimilarityMatrix_upper(df_vector) ==
  {[movieId |-> p[1], movieId_1 |-> p[2],
    similarity |-> co_sym(df_vector[p[1]], df_vector[p[2]])] :
      p \in {q \in (DOMAIN df_vector) \X (DOMAIN df_vector) : q[1] < q[2]}}

\* crossJoin of the item vectors with themselves, a.movieId != b.movieId
SimilarityMatrix(df_vector) ==
  {[movieId |-> p[1], movieId_1 |-> p[2],
    similarity |-> co_sym(df_vector[p[1]], df_vector[p[2]])] :
      p \in {q \in (DOMAIN df_vector) \X (DOMAIN df_vector) : q[1] # q[2]}}

\* training.join(similarity_matrix, on movieId, how='left'): a training row
\* with no similarity row keeps NULL movieId_1 and similarity.
UserMovieRating(rows, sm) ==
  UNION {LET match == {s \in sm : s.movieId = r.movieId}
         IN IF match = {}
            THEN {[movieId |-> r.movieId, userId |-> r.userId,
                   rating |-> r.rating, movieId_1 |-> NullId,
                   similarity |-> Null]}
            ELSE {[movieId |-> r.movieId, userId |-> r.userId,
                   rating |-> r.rating, movieId_1 |-> s.movieId_1,
                   similarity |-> s.similarity] : s \in match} : r \in rows}

\* the data-modeling cell pivoting all of df, the held-out rows included
ModelCell_leak(maxTest) ==
  /\ pc = "loaded"
  /\ \E tst \in {t \in SUBSET df : Cardinality(t) <= maxTest} :
       LET trn == df \ tst
           sm == SimilarityMatrix(pivot(df))
       IN /\ training' = trn
          /\ test' = tst
          /\ df' = pivot(df)
          /\ similarity_matrix' = sm
          /\ df_user_movie_rating' = UserMovieRating(df, sm)
  /\ pc' = "modelled"
  /\ UNCHANGED <<nValue, joined_df, result_df, rmse, userRatingsDf>>
  /\ UNCHANGED aux

\* The data-modeling cell.  randomSplit([0.8, 0.2]) sends each row to either
\* side (here at most maxTest rows to the test side).
ModelCell(maxTest) ==
  /\ pc = "loaded"
  /\ \E tst \in {t \in SUBSET df : Cardinality(t) <= maxTest} :
       LET trn == df \ tst
           sm == SimilarityMatrix(pivot(trn))
       IN /\ training' = trn
          /\ test' = tst
          /\ df' = pivot(trn)
          /\ similarity_matrix' = sm
          /\ df_user_movie_rating' = UserMovieRating(trn, sm)
  /\ pc' = "modelled"
  /\ UNCHANGED <<nValue, joined_df, result_df, rmse, userRatingsDf>>
  /\ UNCHANGED aux

BuildModel == ModelCell(MaxTest)

\* no earlier run
NoRun == [ran |-> FALSE, training |-> {}, test |-> {}]

\* The notebook started again on the same rating file (kernel restarted,
\* cell 3 run): the partitions of the run just made are kept for comparison,
\* df is the file again, everything else is as at the start.
RunAgain ==
  /\ pc = "modelled"
  /\ ~previous.ran
  /\ previous' = [ran |-> TRUE, training |-> training, test |-> test]
  /\ df' = training \cup test
  /\ training' = {}
  /\ test' = {}
  /\ similarity_matrix' = {}
  /\ df_user_movie_rating' = {}
  /\ pc' = "loaded"
  /\ UNCHANGED <<nValue, joined_df, result_df, rmse, userRatingsDf,
                 predictions, partitions, pending, outputs, predicted_rating>>

\* ------------------------------ cell 4 as Spark runs it: a job of tasks
\* df_vector.repartition(10) spreads the item vectors over partitions (here
\* two); the cross join runs one task per pair of partitions, the executors
\* taking the tasks in any order.  co_sym reads its two arguments only, so a
\* task's rows do not depend on the executor that runs it.
Partitions == {1, 2}
Tasks == Partitions \X Partitions

\* a task pairing the items of its first partition among themselves only
TaskEntries_local(df_vector, parts, a, b) ==
  {[movieId |-> p[1], movieId_1 |-> p[2],
    similarity |-> co_sym(df_vector[p[1]], df_vector[p[2]])] :
      p \in {q \in (DOMAIN df_vector) \X (DOMAIN df_vector) :
               parts[q[1]] = a /\ parts[q[2]] = a /\ q[1] # q[2]}}

\* The rows task (a, b) emits: the pairs of an item of partition a with an
\* item of partition b that pass a.movieId != b.movieId.
TaskEntries(df_vector, parts, a, b) ==
  {[movieId |-> p[1], movieId_1 |-> p[2],
    similarity |-> co_sym(df_vector[p[1]], df_vector[p[2]])] :
      p \in {q \in (DOMAIN df_vector) \X (DOMAIN df_vector) :
               parts[q[1]] = a /\ parts[q[2]] = b /\ q[1] # q[2]}}

\* The cell up to df_vector.repartition(10): split, pivot, repartition.
PivotCell ==
  /\ pc = "loaded"
  /\ \E tst \in {t \in SUBSET df : Cardinality(t) <= MaxTestSample} :
       /\ training' = df \ tst
       /\ test' = tst
       /\ df' = pivot(df \ tst)
       /\ partitions' \in [{r.movieId : r \in df \ tst} -> Partitions]
  /\ pending' = Tasks
  /\ outputs' = <<>>
  /\ pc' = "pivoted"
  /\ UNCHANGED <<similarity_matrix, df_user_movie_rating, nValue, joined_df,
                 result_df, rmse, userRatingsDf, predictions, previous,
                 predicted_rating>>

\* One task of the cross join, finished by some executor; its rows form an
\* output partition of their own.
RunTask ==
  /\ pc = "pivoted"
  /\ \E task \in pending :
       /\ outputs' = (task :> TaskEntries(df, partitions, task[1], task[2]))
                        @@ outputs
       /\ pending' = pending \ {task}
  /\ UNCHANGED <<pc, df, training, test, similarity_matrix,
                 df_user_movie_rating, nValue, joined_df, result_df, rmse,
                 userRatingsDf, predictions, partitions, previous,
                 predicted_rating>>

\* The job done: similarity_matrix is the union of the output partitions,
\* and the cell joins it to the training ratings.
CollectCell ==
  /\ pc = "pivoted"
  /\ pending = {}
  /\ LET sm == UNION {outputs[t] : t \in DOMAIN outputs}
     IN /\ similarity_matrix' = sm
        /\ df_user_movie_rating' = UserMovieRating(training, sm)
  /\ pc' = "modelled"
  /\ UNCHANGED <<df, training, test, nValue, joined_df, result_df, rmse,
                 userRatingsDf>>
  /\ UNCHANGED aux

\* ---------------------------------------------------- cell 5: prediction
\* the join on the user only
Join_byUser(tst_rows, sm_rows) ==
  {[tst |-> t, sm |-> s] :
     <<t, s>> \in {p \in tst_rows \X sm_rows :
                     /\ p[2].movieId_1 # NullId
                     /\ p[1].userId = p[2].userId}}

\* test.join(sm, tst.userId == sm.userId AND tst.movieId == sm.movieId_1):
\* an inner join; a NULL movieId_1 equals nothing.
Join(tst_rows, sm_rows) ==
  {[tst |-> t, sm |-> s] :
     <<t, s>> \in {p \in tst_rows \X sm_rows :
                     /\ p[2].movieId_1 # NullId
                     /\ p[1].userId = p[2].userId
                     /\ p[1].movieId = p[2].movieId_1}}

\* orderBy(similarity) without .desc(): ascending, NULL first, NaN last
Before_asc(a, b) ==
  \/ b.kind = "nan" /\ a.kind # "nan"
  \/ b.kind = "num" /\ a.kind = "null"
  \/ a.kind = "num" /\ b.kind = "num" /\ a.val < b.val

\* orderBy(similarity.desc()): NaN sorts above every number, NULL last.
Before(a, b) ==
  \/ a.kind = "nan" /\ b.kind # "nan"
  \/ a.kind = "num" /\ b.kind = "null"
  \/ a.kind = "num" /\ b.kind = "num" /\ a.val > b.val

\* Window.partitionBy("tst.userId", "tst.movieId")
SamePartition(i, j) ==
  i.tst.userId = j.tst.userId /\ i.tst.movieId = j.tst.movieId

\* row_number().over(window_spec): within each partition the rows are
\* numbered 1, 2, ... in window order; rows of equal similarity are numbered
\* in whatever order the shuffle delivers them.
RowNumbers(J) ==
  LET sizes == {Cardinality({i \in J : SamePartition(i, j)}) : j \in J}
      largest == IF J = {} THEN 0 ELSE CHOOSE a \in sizes : \A b \in sizes : a >= b
  IN {rk \in [J -> 1..largest] :
        \A j \in J :
          /\ rk[j] = 1 + Cardinality({i \in J : SamePartition(i, j) /\ rk[i] < rk[j]})
          /\ \A i \in J : SamePartition(i, j) /\ i # j =>
               /\ rk[i] # rk[j]
               /\ Before(i.sm.similarity, j.sm.similarity) => rk[i] < rk[j]}

\* the weight applied to the held-out rating instead of the neighbour's
weighted_rating_label(j) == Mul(lit(j.tst.rating), j.sm.similarity)

\* col("sm.rating") * col("sm.similarity")
weighted_rating(j) == Mul(lit(j.sm.rating), j.sm.similarity)

\* groupBy(tst.userId, tst.movieId, tst.rating).agg(sum, sum), then
\* sum_weighted_rating / sum_similarity, then coalesce(..., lit(0.0))
PredictedRating(group) ==
  LET sum_weighted_rating == spark_sum([j \in group |-> weighted_rating(j)], group)
      sum_similarity == spark_sum([j \in group |-> j.sm.similarity], group)
  IN coalesce(Divide(sum_weighted_rating, sum_similarity), lit(0))

GroupOf(J, t) == {j \in J : j.tst = t}

\* the grouping with the neighbour's movieId among the keys: one row per
\* joined row
ResultDf_perNeighbour(J) ==
  {[userId |-> j.tst.userId, movieId |-> j.tst.movieId, rating |-> j.tst.rating,
    predicted_rating |-> PredictedRating({j})] : j \in J}

ResultDf(J) ==
  {[userId |-> t.userId, movieId |-> t.movieId, rating |-> t.rating,
    predicted_rating |-> PredictedRating(GroupOf(J, t))] :
      t \in {j.tst : j \in J}}

\* filter(col("rank") < nValue)
TopN_strict(J, rk, n) ==
  {[tst |-> j.tst, sm |-> j.sm, rank |-> rk[j]] : j \in {i \in J : rk[i] < n}}

\* withColumn("rank", rk).filter(col("rank") <= nValue)
TopN(J, rk, n) ==
  {[tst |-> j.tst, sm |-> j.sm, rank |-> rk[j]] : j \in {i \in J : rk[i] <= n}}

\* The prediction cell, run when the notebook is at one of the positions
\* "from".
PredictFrom(from) ==
  /\ pc \in from
  /\ \E n \in 1..MaxN :
       LET J == Join(test, df_user_movie_rating)
       IN \E rk \in RowNumbers(J) :
            /\ nValue' = n
            /\ joined_df' = TopN(J, rk, n)
            /\ result_df' = ResultDf(TopN(J, rk, n))
  /\ pc' = "predicted"
  /\ UNCHANGED <<df, training, test, similarity_matrix, df_user_movie_rating,
                 rmse, userRatingsDf>>
  /\ UNCHANGED aux

Predict == PredictFrom({"modelled"})

\* the prediction cell run a second time on the same partitions
Rerun == PredictFrom({"predicted"})

\* ---------------------------------------------------- cell 6: evaluation
\* the residual rating - predicted of a result row, in units, unsigned
Residual(x) ==
  LET diff == lit(x.rating).val - x.predicted_rating.val
  IN Round(IF diff < 0 THEN 0 - diff ELSE diff, 1)

\* The double nearest to the square root of num/den units squared.
FSqrtOf(num, den) ==
  LET r == ISqrt((4 * num) \div den)
  IN Round(IF r * r * den = 4 * num THEN 2 * r ELSE 2 * r + 1, 4)

\* the mean of the residuals instead of the root of the mean square
RootMeanSquaredError_mae(rows) ==
  IF \E x \in rows : x.predicted_rating.kind # "num" THEN NaN
  ELSE Num(Round(FSum([x \in rows |-> Residual(x)], rows), Cardinality(rows)))

\* RegressionEvaluator(metricName="rmse"): sqrt(mean((rating - predicted)^2))
\* over the rows handed in; a NaN prediction makes the metric NaN.  The
\* squares are kept in units squared, so that a small residual does not
\* vanish when squared.
RootMeanSquaredError(rows) ==
  IF \E x \in rows : x.predicted_rating.kind # "num" THEN NaN
  ELSE LET sq == [x \in rows |-> Round(Residual(x) * Residual(x), 1)]
       IN Num(FSqrtOf(FSum(sq, rows), Cardinality(rows)))

\* the evaluator reporting NaN for a frame with no row
EvaluateFrom_nan(from) ==
  /\ pc \in from
  /\ pc' = "evaluated"
  /\ rmse' = IF result_df = {} THEN NaN ELSE RootMeanSquaredError(result_df)
  /\ UNCHANGED <<df, training, test, similarity_matrix, df_user_movie_rating,
                 nValue, joined_df, result_df, userRatingsDf>>
  /\ UNCHANGED aux

\* evaluator.evaluate(result_df); with no row the summarizer rejects the
\* request ("Nothing has been added to this summarizer") and the cell fails.
EvaluateFrom(from) ==
  /\ pc \in from
  /\ IF result_df = {}
     THEN pc' = "failed" /\ rmse' = rmse
     ELSE pc' = "evaluated" /\ rmse' = RootMeanSquaredError(result_df)
  /\ UNCHANGED <<df, training, test, similarity_matrix, df_user_movie_rating,
                 nValue, joined_df, result_df, userRatingsDf>>
  /\ UNCHANGED aux

Evaluate == EvaluateFrom({"predicted"})

\* ------------------------------------------- cell 7: sample user ratings
SampleUserId == 99999

\* The lists the cell's "data" can hold: at most maxSample rated movies.
SampleFilesUpTo(maxSample) ==
  {RowsOf(g) : g \in {h \in [{SampleUserId} \X Items -> SampleRatings \cup {Absent}] :
                        LET n == Cardinality({d \in DOMAIN h : h[d] # Absent})
                        IN 1 <= n /\ n <= maxSample}}

SampleFiles == SampleFilesUpTo(MaxSample)

\* df_user_movie_rating.drop("userId", "rating")
\*   .dropDuplicates(["movieId", "movieId_1"]).withColumnRenamed("movieId", "movieId2")
SmAlias(dumr) ==
  {[movieId2 |-> r.movieId, movieId_1 |-> r.movieId_1,
    similarity |-> r.similarity] : r \in dumr}

\* test_df_alias.join(sm_alias, col("movieId") == col("movieId2")).drop("movieId2")
JoinSample(tst_rows, sm_rows) ==
  {[tst |-> p[1],
    sm |-> [movieId_1 |-> p[2].movieId_1, similarity |-> p[2].similarity]] :
     p \in {q \in tst_rows \X sm_rows : q[1].movieId = q[2].movieId2}}

\* groupBy("movieId_1").agg(sum(rating * similarity), sum(similarity)), the
\* quotient, coalesce(..., lit(0.0))
SamplePredictedRating(group) ==
  LET sum_weighted_rating ==
        spark_sum([j \in group |-> Mul(lit(j.tst.rating), j.sm.similarity)], group)
      sum_similarity == spark_sum([j \in group |-> j.sm.similarity], group)
  IN coalesce(Divide(sum_weighted_rating, sum_similarity), lit(0))

\* the result without the left_anti join
SampleResult_keep(J, rated) ==
  {[movieId_1 |-> m,
    predicted_rating |-> SamplePredictedRating({j \in J : j.sm.movieId_1 = m})] :
      m \in {j.sm.movieId_1 : j \in J}}

\* ... then join(userRatingsDf, movieId_1 == movieId, how="left_anti")
SampleResult(J, rated) ==
  {[movieId_1 |-> m,
    predicted_rating |-> SamplePredictedRating({j \in J : j.sm.movieId_1 = m})] :
      m \in {j.sm.movieId_1 : j \in J} \ {t.movieId : t \in rated}}

\* sort("predicted_rating", ascending=False): the rows in an order that
\* never puts a row before one that sorts above it.
SortedDesc(rows) ==
  {sq \in [1..Cardinality(rows) -> rows] :
     /\ \A a, b \in DOMAIN sq : a # b => sq[a] # sq[b]
     /\ \A a, b \in DOMAIN sq :
          a < b => ~Before(sq[b].predicted_rating, sq[a].predicted_rating)}

\* the cell with its de-duplicated frame bound to the name similarity_matrix
SampleUserCell_rebind(from, maxSample) ==
  /\ pc \in from
  /\ \E data \in SampleFilesUpTo(maxSample), n \in 1..MaxN :
       LET J == JoinSample(data, SmAlias(df_user_movie_rating))
       IN \E rk \in RowNumbers(J) :
            /\ userRatingsDf' = data
            /\ nValue' = n
            /\ joined_df' = TopN(J, rk, n)
            /\ result_df' \in SortedDesc(SampleResult(TopN(J, rk, n), data))
  /\ pc' = "sampled"
  /\ similarity_matrix' = SmAlias(df_user_movie_rating)
  /\ UNCHANGED <<df, training, test, df_user_movie_rating, rmse>>
  /\ UNCHANGED aux

\* The cell run in a state of from.  Its last statement is spark.stop():
\* no cell can be run after it.
SampleUserCell(from, maxSample) ==
  /\ pc \in from
  /\ \E data \in SampleFilesUpTo(maxSample), n \in 1..MaxN :
       LET J == JoinSample(data, SmAlias(df_user_movie_rating))
       IN \E rk \in RowNumbers(J) :
            /\ userRatingsDf' = data
            /\ nValue' = n
            /\ joined_df' = TopN(J, rk, n)
            /\ result_df' \in SortedDesc(SampleResult(TopN(J, rk, n), data))
  /\ pc' = "sampled"
  /\ UNCHANGED <<df, training, test, similarity_matrix, df_user_movie_rating,
                 rmse>>
  /\ UNCHANGED aux

SampleUser == SampleUserCell({"modelled"}, MaxSample)

\* ------------------------- collab_part3: the latent-factor (ALS) predictor
\* coldStartStrategy="nan": every test row is kept
ColdStart_nan(rows, trn) == rows

\* coldStartStrategy="drop": model.transform drops the rows whose prediction
\* is NaN, those whose user or whose item has no factor, that is no rating
\* in the data the model was fitted on.
ColdStart(rows, trn) ==
  {t \in rows : /\ \E r \in trn : r.userId = t.userId
                /\ \E r \in trn : r.movieId = t.movieId}

\* Values a fitted model can predict (the factors are not modelled).
ALSValues == {lit(3), lit(MaxRating)}

\* als.fit(train_data) and model.transform(test_data), on the partitions of
\* the similarity notebook.
ALSCell ==
  /\ pc = "predicted"
  /\ \E p \in [ColdStart(test, training) -> ALSValues] :
       predictions' = {[userId |-> t.userId, movieId |-> t.movieId,
                        rating |-> t.rating, prediction |-> p[t]] :
                         t \in ColdStart(test, training)}
  /\ pc' = "transformed"
  /\ UNCHANGED <<df, training, test, similarity_matrix, df_user_movie_rating,
                 nValue, joined_df, result_df, rmse, userRatingsDf>>
  /\ UNCHANGED <<partitions, pending, outputs, previous, predicted_rating>>

\* ------------------------------- collab_part1: the Pearson attempt
\* The tiny rating file: part 1 writes 0 for a missing rating, so the rows
\* of the file carry ratings of at least 1.
Users1 == {1, 2, 3}
TinyRatings == {1, MaxRating}
TinyDatasets ==
  {RowsOf(g) : g \in [Users1 \X Items -> TinyRatings \cup {Absent}]}

\* a float has about half the significant bits of a double
FloatPrecision == Precision \div 2

RECURSIVE ExponentTo(_, _, _, _)
ExponentTo(prec, num, den, e) ==
  IF num < (2^prec) * den * (2^e) THEN e
  ELSE ExponentTo(prec, num, den, e + 1)

\* .cast(FloatType()): the float nearest to the double, ties to even
CastFloat(a) ==
  IF a.kind # "num" THEN a
  ELSE LET mag == IF a.val < 0 THEN 0 - a.val ELSE a.val
           d == 2^ExponentTo(FloatPrecision, mag, 1, 0)
           m == mag \div d
           r == mag % d
           up == 2 * r > d \/ (2 * r = d /\ m % 2 = 1)
           f == (IF up THEN m + 1 ELSE m) * d
       IN Num(IF a.val < 0 THEN 0 - f ELSE f)

\* the ratings left as they are (no mean subtracted), in units
pearson_average_raw(v) == [u \in DOMAIN v |-> v[u] * Scale]

\* pearson_average: the mean of the non-zero ratings subtracted from each
\* non-zero rating, zeros left at zero; in units.
pearson_average(v) ==
  LET sum_nonzero == SumOn(v, DOMAIN v)
      count_nonzero == Cardinality({u \in DOMAIN v : v[u] # 0})
      mean == Round(sum_nonzero * Scale, count_nonzero)
  IN [u \in DOMAIN v |-> IF v[u] # 0 THEN Round(v[u] * Scale - mean, 1) ELSE 0]

\* pearson1.dot(pearson2), each product and each addition rounded
dense_dot(x, y) == FSum([u \in DOMAIN x |-> Round(x[u] * y[u], Scale)], DOMAIN x)

\* Vectors.norm(x, 2)
dense_norm(x) == FSqrt(dense_dot(x, x) * Scale)

\* part 1's co_sym: the cosine of the mean-centred rows; 0.0/0.0 is nan
co_sym_pearson(x, y) ==
  LET pearson1 == pearson_average(x)
      pearson2 == pearson_average(y)
      norms == Round(dense_norm(pearson1) * dense_norm(pearson2), Scale)
  IN IF norms = 0 THEN NaN
     ELSE Num(Round(dense_dot(pearson1, pearson2) * Scale, norms))

\* crossJoin of the item vectors with themselves, a.movieId != b.movieId,
\* scored by part 1's co_sym
PearsonMatrix(df_vector) ==
  {[movieId |-> p[1], movieId_1 |-> p[2],
    similarity |-> co_sym_pearson(df_vector[p[1]], df_vector[p[2]])] :
      p \in {q \in (DOMAIN df_vector) \X (DOMAIN df_vector) : q[1] # q[2]}}

\* Part 1's model cell: no split, the whole file is pivoted and joined.
PearsonCell ==
  /\ pc = "loaded"
  /\ LET sm == PearsonMatrix(pivot(df))
     IN /\ similarity_matrix' = sm
        /\ df_user_movie_rating' = UserMovieRating(df, sm)
  /\ df' = pivot(df)
  /\ pc' = "pearson"
  /\ UNCHANGED <<training, test, nValue, joined_df, result_df, rmse,
                 userRatingsDf>>
  /\ UNCHANGED aux

\* outcomes of a Python call that are not a float
PyNone == [kind |-> "none", val |-> 0]
Raised == [kind |-> "raised", val |-> 0]

NoCall == [user_id |-> 0, movie_id |-> 0, user_ratings |-> {}, value |-> Null]

\* smDF.filter((col("userId") == user_id) & (col("movieId_1") == movie_id))
FilterRatings(user_id, movie_id, smDF) ==
  {r \in smDF : /\ r.movieId_1 # NullId
                /\ r.userId = user_id
                /\ r.movieId_1 = movie_id}

\* sort(col("similarity").desc()).limit(2): two rows (all of them when there
\* are fewer) none of which sorts below a row left out; ties fall either way.
Limit2(rows) ==
  {T \in SUBSET rows :
     /\ Cardinality(T) = (IF Cardinality(rows) < 2 THEN Cardinality(rows) ELSE 2)
     /\ \A a \in rows \ T : \A b \in T : ~Before(a.similarity, b.similarity)}

\* numerator / denominator of two Python floats, the divisor not 0
PyDivide(a, b) ==
  IF a.kind = "nan" \/ b.kind = "nan" THEN NaN
  ELSE IF b.val < 0 THEN Num(Round(0 - a.val * Scale, 0 - b.val))
  ELSE Num(Round(a.val * Scale, b.val))

\* The rest of predict_user_rating on the two rows kept.  The sum of no row
\* is None, None != 0 is true, and None / None raises TypeError.
predict_user_rating(user_ratings) ==
  LET weighted_rating_1 ==
        [r \in user_ratings |-> CastFloat(Mul(lit(r.rating), r.similarity))]
      numerator == spark_sum(weighted_rating_1, user_ratings)
      denominator == spark_sum([r \in user_ratings |-> r.similarity], user_ratings)
  IN IF denominator.kind = "null" THEN Raised
     ELSE IF denominator.kind = "num" /\ denominator.val = 0 THEN PyNone
     ELSE PyDivide(numerator, denominator)

\* predict_user_rating(user_id, movie_id, smDF=df_user_movie_rating)
PredictUserRating ==
  /\ pc = "pearson"
  /\ \E user_id \in Users1, movie_id \in Items :
       \E T \in Limit2(FilterRatings(user_id, movie_id, df_user_movie_rating)) :
         predicted_rating' = [user_id |-> user_id, movie_id |-> movie_id,
                              user_ratings |-> T,
                              value |-> predict_user_rating(T)]
  /\ pc' = "called"
  /\ UNCHANGED <<df, training, test, similarity_matrix, df_user_movie_rating,
                 nValue, joined_df, result_df, rmse, userRatingsDf,
                 predictions, partitions, pending, outputs, previous>>

Init ==
  /\ pc = "start"
  /\ df = {}
  /\ training = {}
  /\ test = {}
  /\ similarity_matrix = {}
  /\ df_user_movie_rating = {}
  /\ nValue = 0
  /\ joined_df = {}
  /\ result_df = {}
  /\ rmse = Null
  /\ userRatingsDf = {}
  /\ predictions = {}
  /\ previous = NoRun
  /\ predicted_rating = NoCall
  /\ partitions = <<>>
  /\ pending = {}
  /\ outputs = <<>>

\* The evaluation pipeline: cells 3 to 6.
Next == Load \/ BuildModel \/ Predict \/ Evaluate

Spec == Init /\ [][Next]_vars

\* The sample-user recommendation: cells 3, 4 and 7.  The cell never reads
\* the test partition, so the split keeps at most MaxTestSample rows aside.
NextSample == Load \/ ModelCell(MaxTestSample) \/ SampleUser

SpecSample == Init /\ [][NextSample]_vars

\* The two predictors on one split: cells 3, 4 and 5, then the latent-factor
\* model fitted and applied.
NextALS == Load \/ BuildModel \/ Predict \/ ALSCell

SpecALS == Init /\ [][NextALS]_vars

\* The data-modeling cell as a job of tasks: cell 3, then cell 4 task by
\* task.
NextParallel == Load \/ PivotCell \/ RunTask \/ CollectCell

SpecParallel == Init /\ [][NextParallel]_vars

\* Cells 3 and 4 on rating files whose ratings are not all on the scale.
NextRaw == LoadFrom(RawDatasets) \/ ModelCell(MaxTestRerun)

SpecRaw == Init /\ [][NextRaw]_vars

\* Two runs of cells 3 and 4 on one rating file.
NextSplit == Load \/ ModelCell(MaxTestRerun) \/ RunAgain

SpecSplit == Init /\ [][NextSplit]_vars

\* Part 1: the tiny file loaded, the Pearson similarity matrix built, one
\* call of predict_user_rating.
NextPearson == LoadFrom(TinyDatasets) \/ PearsonCell \/ PredictUserRating

SpecPearson == Init /\ [][NextPearson]_vars

\* Two runs of the prediction cell on one split: cells 3, 4, 5 and 5 again.
NextRerun == Load \/ ModelCell(MaxTestRerun) \/ Predict \/ Rerun

SpecRerun == Init /\ [][NextRerun]_vars

\* The cells after the data-modeling cell run in any order, any number of
\* times: the prediction cell whenever the model is built, the evaluation
\* cell whenever there is a result_df of test rows, the sample-user cell
\* (which stops the session) at any point.
Later == {"modelled", "predicted", "evaluated", "failed"}

NextAnyOrder ==
  \/ Load
  \/ ModelCell(MaxTestRerun)
  \/ PredictFrom(Later)
  \/ EvaluateFrom(Later \ {"modelled"})
  \/ SampleUserCell(Later, MaxSampleAny)

SpecAnyOrder == Init /\ [][NextAnyOrder]_vars

\* ============================================================== properties
\* Helpers of the properties: the partitions read directly, without the
\* pivot and without the joined frames.
Built == pc \in {"modelled", "predicted", "evaluated", "failed"}
Predicted == pc \in {"predicted", "evaluated", "failed"}

TrainItems == {r.movieId : r \in training}
TrainUsers == {r.userId : r \in training}
Raters(m) == {r.userId : r \in {q \in training : q.movieId = m}}
TrainRating(u, m) ==
  (CHOOSE r \in training : r.userId = u /\ r.movieId = m).rating
RatedBy(u) == {r.movieId : r \in {q \in training : q.userId = u}}

DotOf(i, j) ==
  LET both == Raters(i) \cap Raters(j)
  IN SumOn([u \in both |-> TrainRating(u, i) * TrainRating(u, j)], both)
NormSqOf(i) ==
  SumOn([u \in Raters(i) |-> TrainRating(u, i) * TrainRating(u, i)], Raters(i))

Entries(k, t) == {e \in similarity_matrix : e.movieId = k /\ e.movieId_1 = t}
\* the items u rated in training that have a similarity entry to t
Candidates(u, t) == {k \in RatedBy(u) : Entries(k, t) # {}}
NeighborSet(t) == {j \in joined_df : j.tst = t}
TestRowOf(x) == [userId |-> x.userId, movieId |-> x.movieId, rating |-> x.rating]
AllNum(K) == \A j \in K : j.sm.similarity.kind = "num"
SimSum(K) == SumOn([j \in K |-> j.sm.similarity.val], K)
WeightedSum(K) == SumOn([j \in K |-> j.sm.rating * j.sm.similarity.val], K)

\* the similarity entry (k, t) and the quotient of C1 in double arithmetic
SimilarityOf(k, t) == (CHOOSE e \in Entries(k, t) : TRUE).similarity
WeightedAverage(u, t, ks) ==
  LET product == [k \in ks |->
                    Round(TrainRating(u, k) * Scale * SimilarityOf(k, t).val, Scale)]
      weight == [k \in ks |-> SimilarityOf(k, t).val]
  IN Num(Round(FSum(product, ks) * Scale, FSum(weight, ks)))

\* four roundings of a value of at most MaxRating, and the last unit
PredTol == (4 * MaxRating * Scale) \div (2^Precision) + 1

Abs(a) == IF a < 0 THEN 0 - a ELSE a

\* C1: every scored test row's predicted_rating is
\* sum(similarity_k * rating_k) / sum(similarity_k) over exactly the rows of
\* its NeighborSet (rank <= nValue), rating_k being the user's training
\* rating of neighbour k and similarity_k the similarity entry (k, target):
\* it is that quotient evaluated in double arithmetic, within PredTol units
\* of the exact quotient, and NaN when a neighbour's similarity is NaN.
C1_PredictedIsWeightedAverage ==
  Predicted =>
    \A x \in result_df :
      LET t == TestRowOf(x)
          K == NeighborSet(t)
      IN /\ t \in test
         /\ K # {}
         /\ \A j \in K :
              /\ j.rank <= nValue
              /\ j.sm.movieId \in RatedBy(t.userId)
              /\ j.sm.rating = TrainRating(t.userId, j.sm.movieId)
              /\ \E e \in Entries(j.sm.movieId, t.movieId) :
                   e.similarity = j.sm.similarity
              /\ \A i \in K : i.sm.movieId = j.sm.movieId => i = j
         /\ (AllNum(K) /\ SimSum(K) > 0) =>
              /\ x.predicted_rating =
                   WeightedAverage(t.userId, t.movieId, {j.sm.movieId : j \in K})
              /\ Abs(x.predicted_rating.val * SimSum(K) - WeightedSum(K) * Scale)
                   <= PredTol * SimSum(K)
         /\ ~AllNum(K) => x.predicted_rating.kind = "nan"

\* C1 witness: a scored row with two neighbours of different rating and
\* positive similarity, whose prediction lies strictly between the ratings.
C1_Witness ==
  /\ Predicted
  /\ \E x \in result_df :
       LET K == NeighborSet(TestRowOf(x))
       IN /\ Cardinality(K) = 2
          /\ AllNum(K)
          /\ \A j \in K : j.sm.similarity.val > 0
          /\ \E i, j \in K :
               /\ i.sm.rating * Scale < x.predicted_rating.val
               /\ x.predicted_rating.val < j.sm.rating * Scale

\* the roundings of co_sym (two roots, a product, a quotient) of a value of
\* at most 1
SimTol == (4 * Scale) \div (2^Precision)

\* C2: for distinct training items i, j with non-zero rating rows the
\* similarity entry (i, j) is the cosine of the raw zero-filled rows, within
\* SimTol units: (score - SimTol)^2 * |i|^2 * |j|^2 <= (dot * Scale)^2 <=
\* (score + SimTol)^2 * |i|^2 * |j|^2, dot summing over the users who rated
\* both.
C2_CosineOfRawRows ==
  Built =>
    \A i, j \in TrainItems :
      (i # j /\ NormSqOf(i) > 0 /\ NormSqOf(j) > 0) =>
        /\ Entries(i, j) # {}
        /\ \A e \in Entries(i, j) :
             LET sc == e.similarity.val
                 lo == IF sc > SimTol THEN sc - SimTol ELSE 0
                 hi == sc + SimTol
                 nn == NormSqOf(i) * NormSqOf(j)
                 dd == DotOf(i, j) * DotOf(i, j) * Scale * Scale
             IN /\ e.similarity.kind = "num"
                /\ sc >= 0
                /\ lo * lo * nn <= dd
                /\ dd <= hi * hi * nn

\* C2 witness: a pair with a similarity strictly between 0 and 1, one of
\* whose items has a rater the other lacks.
C2_Witness ==
  /\ Built
  /\ \E e \in similarity_matrix :
       /\ e.similarity.kind = "num"
       /\ 0 < e.similarity.val /\ e.similarity.val < Scale
       /\ Raters(e.movieId) # Raters(e.movieId_1)
       /\ NormSqOf(e.movieId) > 0 /\ NormSqOf(e.movieId_1) > 0

\* a ranks strictly above b by similarity (a NaN above every number)
Greater(a, b) ==
  \/ a.kind = "num" /\ b.kind = "num" /\ a.val > b.val
  \/ a.kind = "nan" /\ b.kind = "num"

Min(a, b) == IF a <= b THEN a ELSE b

\* C3: every member of a NeighborSet is an item its user rated in training,
\* and no rated item left out has a strictly greater similarity to the
\* target than a member that was kept.
C3_NeighboursAreTopRated ==
  Predicted =>
    \A t \in test :
      \A j \in NeighborSet(t) :
        /\ j.sm.movieId \in RatedBy(t.userId)
        /\ j.sm.movieId_1 = t.movieId
        /\ \A k \in Candidates(t.userId, t.movieId) :
             (\A i \in NeighborSet(t) : i.sm.movieId # k) =>
               \A e \in Entries(k, t.movieId) :
                 ~Greater(e.similarity, j.sm.similarity)

\* C3 witness: a rated item was left out whose similarity is positive and
\* strictly below that of the member kept.
C3_Witness ==
  /\ Predicted
  /\ \E t \in test :
       \E j \in NeighborSet(t) :
         \E k \in Candidates(t.userId, t.movieId) :
           /\ \A i \in NeighborSet(t) : i.sm.movieId # k
           /\ \E e \in Entries(k, t.movieId) :
                /\ e.similarity.kind = "num"
                /\ j.sm.similarity.kind = "num"
                /\ 0 < e.similarity.val
                /\ e.similarity.val < j.sm.similarity.val

\* C4: for every test row (u, t) the NeighborSet has exactly min(nValue, R)
\* members, R the number of items u rated in training that have a similarity
\* entry to t; with R < nValue all R are kept and the cell does not fail.
C4_NeighbourCount ==
  Predicted =>
    \A t \in test :
      Cardinality(NeighborSet(t)) =
        Min(nValue, Cardinality(Candidates(t.userId, t.movieId)))

\* C4 witness: a query with fewer rated items than nValue, all returned.
C4_Witness ==
  /\ Predicted
  /\ \E t \in test :
       /\ Cardinality(Candidates(t.userId, t.movieId)) = 1
       /\ nValue = 2
       /\ Cardinality(NeighborSet(t)) = 1

\* the rated movies of the sample user that have a similarity entry to m
SampleCandidates(m) == {t \in userRatingsDf : Entries(t.movieId, m) # {}}
SampleNeighbours(m) == {j \in joined_df : j.sm.movieId_1 = m}

\* C5 (as claimed), in the sample-user recommendation: the rank <= nValue cut
\* is applied per predicted item, so every item with a candidate neighbour
\* keeps exactly its min(nValue, candidates) most similar rated movies.
C5_SampleTopNPerTarget ==
  pc = "sampled" =>
    \A m \in TrainItems :
      /\ Cardinality(SampleNeighbours(m)) =
           Min(nValue, Cardinality(SampleCandidates(m)))
      /\ \A j \in SampleNeighbours(m) :
           \A t \in SampleCandidates(m) :
             (\A i \in SampleNeighbours(m) : i.tst # t) =>
               \A e \in Entries(t.movieId, m) :
                 ~Greater(e.similarity, j.sm.similarity)

\* C6 (as claimed): for a fixed training partition, test partition and
\* nValue, running the prediction cell again gives the same joined_df and
\* the same result_df.
C6_RerunSameResult ==
  [][(pc = "predicted" /\ pc' = "predicted" /\ nValue' = nValue)
       => (joined_df' = joined_df /\ result_df' = result_df)]_vars

\* C7: a scored row whose selected similarities sum to exactly 0 gets the
\* predicted rating 0.0 (a number, not NULL), and every test row with a
\* candidate neighbour is scored.
C7_ZeroSumPredictsZero ==
  Predicted =>
    /\ \A x \in result_df :
         LET K == NeighborSet(TestRowOf(x))
         IN (AllNum(K) /\ SimSum(K) = 0) => x.predicted_rating = Num(0)
    /\ \A t \in test :
         Candidates(t.userId, t.movieId) # {} =>
           \E x \in result_df : TestRowOf(x) = t

\* C7 witness: a zero-sum row predicted 0.0, with a second row scored in
\* the same run.
C7_Witness ==
  /\ Predicted
  /\ \E x, y \in result_df :
       /\ x # y
       /\ NeighborSet(TestRowOf(x)) # {}
       /\ AllNum(NeighborSet(TestRowOf(x)))
       /\ SimSum(NeighborSet(TestRowOf(x))) = 0
       /\ x.predicted_rating = Num(0)

\* C8 (as claimed): a test row with an empty NeighborSet still gets a
\* result row, with predicted rating 0.0.
C8_EmptyNeighbourhoodDefaults ==
  Predicted =>
    \A t \in test :
      Candidates(t.userId, t.movieId) = {} =>
        \E x \in result_df : TestRowOf(x) = t /\ x.predicted_rating = Num(0)

\* C9 (as claimed): a pair one of whose rating rows has zero norm has
\* similarity 0.0, never NaN.
C9_ZeroNormScoresZero ==
  Built =>
    \A e \in similarity_matrix :
      (NormSqOf(e.movieId) = 0 \/ NormSqOf(e.movieId_1) = 0) =>
        e.similarity = Num(0)

MinOf(S) == CHOOSE a \in S : \A b \in S : a <= b
MaxOf(S) == CHOOSE a \in S : \A b \in S : a >= b

\* C10 (as claimed): when the selected similarities are all non-negative
\* numbers with a positive sum and the neighbours' ratings lie in
\* [0, MaxRating], the predicted rating lies between the smallest and the
\* largest of these ratings, hence in [0, MaxRating].
C10_PredictionWithinRatings ==
  Predicted =>
    \A x \in result_df :
      LET K == NeighborSet(TestRowOf(x))
          rs == {j.sm.rating : j \in K}
      IN (/\ AllNum(K)
          /\ \A j \in K : j.sm.similarity.val >= 0
          /\ SimSum(K) > 0
          /\ rs \subseteq 0..MaxRating) =>
           /\ x.predicted_rating.kind = "num"
           /\ MinOf(rs) * Scale <= x.predicted_rating.val
           /\ x.predicted_rating.val <= MaxOf(rs) * Scale
           /\ 0 <= x.predicted_rating.val
           /\ x.predicted_rating.val <= MaxRating * Scale

\* C11: the similarity entries are exactly one per ordered pair of distinct
\* items that have a row in the training utility matrix; no entry pairs an
\* item with itself or names an item without a row.
C11_OneEntryPerOrderedPair ==
  Built =>
    /\ \A i, j \in TrainItems : i # j => Cardinality(Entries(i, j)) = 1
    /\ \A e \in similarity_matrix :
         /\ e.movieId # e.movieId_1
         /\ e.movieId \in TrainItems
         /\ e.movieId_1 \in TrainItems
    /\ Cardinality(similarity_matrix) =
         Cardinality(TrainItems) * (Cardinality(TrainItems) - 1)

\* C11 witness: three training items, hence six entries.
C11_Witness ==
  /\ Built
  /\ Cardinality(TrainItems) = 3
  /\ Cardinality(similarity_matrix) = 6

\* C12: for distinct training items i, j the stored score of entry (i, j)
\* is the stored score of entry (j, i) (the same number, or NaN both).
C12_SymmetricScores ==
  Built =>
    \A i, j \in TrainItems :
      i # j =>
        /\ Entries(i, j) # {} /\ Entries(j, i) # {}
        /\ \A e \in Entries(i, j) :
             \A f \in Entries(j, i) : e.similarity = f.similarity

\* C12 witness: a pair of items of different norm with a score strictly
\* between 0 and 1.
C12_Witness ==
  /\ Built
  /\ \E e \in similarity_matrix :
       /\ e.similarity.kind = "num"
       /\ 0 < e.similarity.val /\ e.similarity.val < Scale
       /\ NormSqOf(e.movieId) # NormSqOf(e.movieId_1)
       /\ \E f \in Entries(e.movieId_1, e.movieId) : f.similarity = e.similarity

\* C13: any two non-zero rows of the utility matrix satisfy
\* dot^2 <= |i|^2 * |j|^2, and the stored cosine is a number in [-1, 1] up
\* to the rounding SimTol.
C13_CosineInRange ==
  Built =>
    \A i, j \in DOMAIN df :
      (i # j /\ norm2sq(df[i]) > 0 /\ norm2sq(df[j]) > 0) =>
        /\ dot(df[i], df[j]) * dot(df[i], df[j])
             <= norm2sq(df[i]) * norm2sq(df[j])
        /\ \A e \in Entries(i, j) :
             /\ e.similarity.kind = "num"
             /\ 0 - (Scale + SimTol) <= e.similarity.val
             /\ e.similarity.val <= Scale + SimTol

\* C13 witness: two different parallel rows, whose cosine is the bound 1.
C13_Witness ==
  /\ Built
  /\ \E i, j \in DOMAIN df :
       /\ i # j /\ df[i] # df[j]
       /\ norm2sq(df[i]) > 0
       /\ dot(df[i], df[j]) * dot(df[i], df[j]) = norm2sq(df[i]) * norm2sq(df[j])
       /\ \E e \in Entries(i, j) : e.similarity = Num(Scale)

\* C14: a test row whose user or whose item does not occur in the training
\* partition has no row in result_df, neither after the prediction cell nor
\* when the evaluator reads it.
C14_ColdStartRowsNotScored ==
  Predicted =>
    \A x \in result_df :
      /\ TestRowOf(x) \in test
      /\ x.userId \in TrainUsers
      /\ x.movieId \in TrainItems

\* C14 witness: the evaluator has run on a result that scores one test row
\* and leaves out another whose item has no training row.
C14_Witness ==
  /\ pc = "evaluated"
  /\ result_df # {}
  /\ \E t \in test :
       /\ t.userId \in TrainUsers
       /\ t.movieId \notin TrainItems
       /\ \A x \in result_df : TestRowOf(x) # t

\* C16: the utility matrix has one row per training item and one column per
\* training user; entry (i, u) is u's training rating of i when there is one
\* and 0 otherwise; all rows share the same columns.
C16_UtilityMatrixShape ==
  Built =>
    /\ DOMAIN df = TrainItems
    /\ \A i \in DOMAIN df :
         /\ DOMAIN df[i] = TrainUsers
         /\ \A u \in TrainUsers :
              df[i][u] = IF u \in Raters(i) THEN TrainRating(u, i) ELSE 0

\* C16 witness: a matrix of at least two rows and two columns with a rating
\* and a filled-in 0.
C16_Witness ==
  /\ Built
  /\ Cardinality(TrainItems) >= 2 /\ Cardinality(TrainUsers) = 2
  /\ \E i \in TrainItems :
       \E u, v \in TrainUsers :
         /\ u \notin Raters(i) /\ df[i][u] = 0
         /\ v \in Raters(i) /\ df[i][v] > 0

\* C17: the utility matrix, the similarity entries and the user-movie-rating
\* frame are functions of the training partition alone, whatever rows and
\* rating values were held out, and every neighbour rating used by the
\* prediction is a training rating.
C17_BuiltFromTrainingOnly ==
  Built =>
    /\ df = pivot(training)
    /\ similarity_matrix = SimilarityMatrix(pivot(training))
    /\ df_user_movie_rating = UserMovieRating(training, similarity_matrix)
    /\ \A j \in joined_df :
         Row(j.sm.userId, j.sm.movieId, j.sm.rating) \in training

\* C17 witness: a prediction whose held-out row comes from a user and an
\* item that both have training ratings, the held-out value differing from
\* the neighbour rating used.
C17_Witness ==
  /\ Predicted
  /\ \E j \in joined_df :
       /\ j.tst.userId \in TrainUsers
       /\ j.tst.movieId \in TrainItems
       /\ j.tst.rating # j.sm.rating
       /\ j.tst.rating > 0

\* the rounding of the metric (squares, sum and root) and the last unit
RmseTol(v) == (2 * v) \div (2^Precision) + 1

SquaredResiduals ==
  SumOn([x \in result_df |->
           (x.rating * Scale - x.predicted_rating.val)
             * (x.rating * Scale - x.predicted_rating.val)], result_df)

Scored(frame) == {TestRowOf(x) : x \in frame}

\* C15: on one train/test partition the similarity-based predictor and the
\* latent-factor predictor (coldStartStrategy drop) score the same test
\* rows, namely those whose user and whose item both occur in training.
C15_SameRowsScored ==
  pc = "transformed" =>
    /\ Scored(result_df) = Scored(predictions)
    /\ Scored(result_df) =
         {t \in test : t.userId \in TrainUsers /\ t.movieId \in TrainItems}

\* C15 witness: both predictors score one test row and both leave out
\* another, whose item has no training rating.
C15_Witness ==
  /\ pc = "transformed"
  /\ result_df # {} /\ predictions # {}
  /\ \E t \in test :
       /\ t.userId \in TrainUsers /\ t.movieId \notin TrainItems
       /\ t \notin Scored(result_df) /\ t \notin Scored(predictions)

\* C18: whatever the spread of the items over partitions and the order in
\* which the tasks finish, no two tasks emit the same row, and once every
\* task has finished the rows of all tasks together, and the merged
\* similarity_matrix, are exactly the rows of one sequential pass over all
\* ordered pairs of distinct items.
C18_ParallelEqualsSequential ==
  /\ pc \in {"pivoted", "modelled"} =>
       \A t, u \in DOMAIN outputs : u # t => outputs[t] \cap outputs[u] = {}
  /\ (pc \in {"pivoted", "modelled"} /\ DOMAIN outputs = Tasks) =>
       UNION {outputs[t] : t \in Tasks} = SimilarityMatrix(df)
  /\ (pc = "modelled" /\ DOMAIN outputs = Tasks) =>
       /\ similarity_matrix = UNION {outputs[t] : t \in Tasks}
       /\ Cardinality(similarity_matrix) =
            Cardinality(DOMAIN df) * (Cardinality(DOMAIN df) - 1)

\* C18 witness: three items spread over both partitions, all tasks run, six
\* entries merged from at least three tasks.
C18_Witness ==
  /\ pc = "modelled"
  /\ DOMAIN outputs = Tasks
  /\ Cardinality(DOMAIN df) = 3
  /\ \E i, j \in DOMAIN partitions : partitions[i] # partitions[j]
  /\ Cardinality(similarity_matrix) = 6
  /\ Cardinality({t \in Tasks : outputs[t] # {}}) >= 3

\* C19: once the data-modeling cell has run, no step changes the utility
\* matrix (df) or the similarity entries (similarity_matrix), whichever of
\* the prediction, evaluation and sample-user cells runs, in whatever order
\* and however often.
C19_MatricesNeverChanged ==
  [][(pc \in Later \cup {"sampled"}) =>
       (df' = df /\ similarity_matrix' = similarity_matrix)]_vars

\* C19 witness: the session stopped by the sample-user cell after the
\* prediction and evaluation cells have run, with a similarity matrix of
\* six entries and recommendations computed from it.
C19_Witness ==
  /\ pc = "sampled"
  /\ rmse.kind = "num"
  /\ Cardinality(similarity_matrix) = 6
  /\ similarity_matrix = SimilarityMatrix(df)
  /\ result_df # <<>>

\* C21: the evaluation cell run on a result_df with no row ends in an error
\* and reports no metric: rmse stays unset (neither NaN nor a number), and
\* a metric is only ever reported for a result_df with at least one row.
C21_EmptyResultIsAnError ==
  /\ (pc \in {"evaluated", "failed"} /\ result_df = {}) =>
       (pc = "failed" /\ rmse = Null)
  /\ pc = "evaluated" => result_df # {}

\* C21 witness: the evaluation failed on a split whose test rows are all
\* cold-start rows, the training partition being non-empty.
C21_Witness ==
  /\ pc = "failed"
  /\ training # {}
  /\ Cardinality(test) = 2
  /\ result_df = {}
  /\ rmse = Null

\* C22 (as claimed): the data-modeling cell does not complete on an empty
\* training partition: no utility matrix, empty or not, is built from it
\* and no later cell runs on it.
C22_EmptyTrainingRejected == Built => training # {}

\* C23 (as claimed): no rating outside [0, MaxRating] reaches the training
\* partition, the test partition or the utility matrix: a file row that
\* carries one is rejected when the file is loaded.
C23_InvalidRowsRejected ==
  /\ \A r \in training \cup test : r.rating \in 0..MaxRating
  /\ Built => \A m \in DOMAIN df : \A u \in DOMAIN df[m] :
                df[m][u] \in 0..MaxRating

\* C24 (as claimed): the split run again on the same rating set gives the
\* training partition and the test partition of the earlier run.
C24_SplitIsDeterministic ==
  (pc = "modelled" /\ previous.ran) =>
    (training = previous.training /\ test = previous.test)

\* C25 (as claimed): two distinct training items with no rater in common
\* have the similarity entry 0.0 in both directions.
C25_NoCommonRaterScoresZero ==
  Built =>
    \A i, j \in TrainItems :
      (i # j /\ Raters(i) \cap Raters(j) = {}) =>
        /\ \A e \in Entries(i, j) : e.similarity = Num(0)
        /\ \A e \in Entries(j, i) : e.similarity = Num(0)
        /\ Entries(i, j) # {}

\* C27: the list the sample-user cell shows holds no movie of the sample
\* user's own list, holds each movie once, and is in descending order of
\* predicted_rating: no row stands before a row that sorts above it (a NaN
\* sorts above every number).
C27_RecommendationsUnratedAndSorted ==
  pc = "sampled" =>
    /\ \A a \in DOMAIN result_df :
         /\ \A t \in userRatingsDf : result_df[a].movieId_1 # t.movieId
         /\ \A b \in DOMAIN result_df :
              a # b => result_df[a].movieId_1 # result_df[b].movieId_1
    /\ \A a, b \in DOMAIN result_df :
         a < b => ~Greater(result_df[b].predicted_rating,
                           result_df[a].predicted_rating)

\* C27 witness: two movies rated, each a candidate target through the
\* other and left out, and a list of one unrated movie with a prediction.
C27_Witness ==
  /\ pc = "sampled"
  /\ Cardinality(userRatingsDf) = 2
  /\ \A t \in userRatingsDf : \E j \in joined_df : j.sm.movieId_1 = t.movieId
  /\ result_df # <<>>
  /\ result_df[1].predicted_rating.kind = "num"
  /\ result_df[1].predicted_rating.val > 0

\* C28 (as claimed): with every training rating in [0, MaxRating], every
\* similarity entry is a number >= 0 and every predicted_rating of result_df
\* is a number in [0, MaxRating], whatever nValue and the test partition.
C28_CosinePipelineInRange ==
  (\A r \in training : r.rating \in 0..MaxRating) =>
    /\ Built => \A e \in similarity_matrix :
                  e.similarity.kind = "num" /\ e.similarity.val >= 0
    /\ Predicted => \A x \in result_df :
                      /\ x.predicted_rating.kind = "num"
                      /\ 0 <= x.predicted_rating.val
                      /\ x.predicted_rating.val <= MaxRating * Scale

\* C29: result_df holds exactly one row for each test row whose user and
\* whose item both occur in the training partition, and no other row; the
\* row carries the userId, movieId and rating of its test row.
C29_OneRowPerScorableTestRow ==
  Predicted =>
    /\ \A t \in test :
         Cardinality({x \in result_df : x.userId = t.userId /\ x.movieId = t.movieId}) =
           (IF t.userId \in TrainUsers /\ t.movieId \in TrainItems THEN 1 ELSE 0)
    /\ \A x \in result_df :
         \E t \in test : /\ x.userId = t.userId /\ x.movieId = t.movieId
                         /\ x.rating = t.rating
    /\ Cardinality(result_df) =
         Cardinality({t \in test : t.userId \in TrainUsers /\ t.movieId \in TrainItems})

\* C29 witness: two test rows scored, one of them from two joined rows with
\* different neighbours, and a result of exactly two rows.
C29_Witness ==
  /\ Predicted
  /\ Cardinality(test) = 2
  /\ Cardinality(result_df) = 2
  /\ \E x \in result_df :
       LET K == NeighborSet(TestRowOf(x))
       IN /\ Cardinality(K) = 2
          /\ \E i, j \in K : weighted_rating(i) # weighted_rating(j)

\* C30 (as claimed): predict_user_rating never raises: it returns a float
\* or None, and None exactly when no row is selected or the selected
\* similarities sum to 0.
C30_PredictUserRatingNeverFails ==
  pc = "called" =>
    LET T == predicted_rating.user_ratings
        unformed == T = {} \/ spark_sum([r \in T |-> r.similarity], T) = Num(0)
    IN /\ predicted_rating.value.kind \in {"num", "nan", "none"}
       /\ predicted_rating.value = PyNone <=> unformed

\* a rating file with every rating in [1, MaxRating]: movies 1 and 2 rated
\* 1 and 5 by users 1 and 2, movie 3 rated 5 by user 1 and 1 by user 3
OutOfRangeFile ==
  {Row(1, 1, 1), Row(2, 1, MaxRating), Row(1, 2, 1), Row(2, 2, MaxRating),
   Row(1, 3, MaxRating), Row(3, 3, 1)}

\* C26: there is a rating set with every rating in [0, MaxRating] and a
\* query on which the top-2 weighted average over Pearson similarities is
\* outside [0, MaxRating]: on OutOfRangeFile, predict_user_rating(1, 1)
\* selects two rows, one of negative similarity, and returns a number
\* below 0.
C26_PearsonPredictsOutOfRange ==
  /\ \A r \in OutOfRangeFile : r.rating \in 0..MaxRating
  /\ (/\ pc = "called"
      /\ df = pivot(OutOfRangeFile)
      /\ predicted_rating.user_id = 1
      /\ predicted_rating.movie_id = 1) =>
       /\ Cardinality(predicted_rating.user_ratings) = 2
       /\ \E r \in predicted_rating.user_ratings : r.similarity.val < 0
       /\ predicted_rating.value.kind = "num"
       /\ predicted_rating.value.val < 0

\* C26 witness: that call made, returning -3.0.
C26_Witness ==
  /\ pc = "called"
  /\ df = pivot(OutOfRangeFile)
  /\ predicted_rating.user_id = 1
  /\ predicted_rating.movie_id = 1
  /\ predicted_rating.value = Num(0 - 3 * Scale)
====
